---- MODULE Spec2Model ----
(***************************************************************************)
(* The timed-caption pipeline of apps/server/scripts: asr.py (format_time, *)
(* write_srt, main) and translate.py (parse_srt, write_srt, main).         *)
(*                                                                         *)
(* Text is a sequence of one-character strings.  A time offset in seconds  *)
(* is carried as an integer number of quarter-milliseconds (x seconds is   *)
(* the integer 4000 * x), so that the product seconds * 1000 of            *)
(* format_time is the exact dyadic value q / 4 and a rounding tie (q / 4 = *)
(* k + 1/2) is a value the model can hold.                                 *)
(***************************************************************************)
EXTENDS Integers, Sequences, FiniteSets, TLC

VARIABLES
    pc,                  \* position of the running script
    segments_iter,       \* asr.main: what the segment producer still holds
    segments,            \* asr.main: the collected segments
    total,               \* asr.main: expected duration (quarter-ms), args.duration_sec
    stdout,              \* asr.main: the PROGRESS samples printed so far
    out_file,            \* the output file: whether it was opened, and the f.write strings
    re_file,             \* a file written from entries parsed back from out_file
    write_calls,         \* the arguments of every write_srt call made so far
    srt_text,            \* translate.main / parse_srt: the text of the input file
    entries,             \* parse_srt's result
    translated_entries,  \* translate.main: the entries handed to write_srt
    translated_lines,    \* translate.main: the lines of the entry being translated
    calls,               \* translate.main: the lines passed to translation.translate
    alt_text,            \* a second input text, parsed beside srt_text
    alt_entries,         \* parse_srt's result on alt_text
    seconds,             \* format_time's argument (quarter-ms)
    stamp,               \* format_time's result
    given                \* the structured input srt_text was built from (history)

vars == <<pc, segments_iter, segments, total, stdout, out_file, re_file, write_calls,
          srt_text, entries, translated_entries, translated_lines, calls,
          alt_text, alt_entries,
          seconds, stamp, given>>

asrVars == <<segments_iter, segments, total, stdout>>
trVars == <<translated_entries, translated_lines, calls>>
parseVars == <<srt_text, entries, alt_text, alt_entries, re_file>>
codecVars == <<seconds, stamp>>

----------------------------------------------------------------------------
(* Characters and strings *)

NL == "\n"
CR == "\r"
SP == " "

DigitChars == <<"0", "1", "2", "3", "4", "5", "6", "7", "8", "9">>

\* str.isspace() of one character, on the characters the model uses
IsSpace(c) == c \in {SP, NL, CR, "\t"}

IsDigit(c) == \E i \in 1..Len(DigitChars) : DigitChars[i] = c

\* str.strip(): leading and trailing whitespace removed
Strip(s) ==
    LET keep == {i \in 1..Len(s) : ~IsSpace(s[i])}
    IN  IF keep = {} THEN <<>>
        ELSE SubSeq(s, CHOOSE i \in keep : \A j \in keep : i <= j,
                       CHOOSE i \in keep : \A j \in keep : j <= i)

\* str.isdigit(): non-empty and every character a digit
IsDigitStr(s) == s # <<>> /\ \A i \in 1..Len(s) : IsDigit(s[i])

\* str(i) / f"{i}" of a non-negative integer
RECURSIVE Dec(_)
Dec(n) == IF n < 10 THEN <<DigitChars[n + 1]>>
          ELSE Append(Dec(n \div 10), DigitChars[(n % 10) + 1])

\* f"{n:0{w}d}": decimal, zero-padded on the left to at least w characters
RECURSIVE ZeroPad(_, _)
ZeroPad(s, w) == IF Len(s) >= w THEN s ELSE ZeroPad(<<"0">> \o s, w)

\* the concatenation of a sequence of strings
RECURSIVE Flatten(_)
Flatten(ss) == IF ss = <<>> THEN <<>> ELSE Head(ss) \o Flatten(Tail(ss))

\* "\n".join(lines)
RECURSIVE JoinLines(_)
JoinLines(ls) ==
    IF ls = <<>> THEN <<>>
    ELSE IF Len(ls) = 1 THEN ls[1]
    ELSE ls[1] \o <<NL>> \o JoinLines(Tail(ls))

----------------------------------------------------------------------------
(* asr.py: format_time *)

\* a variant of PyRound that rounds a tie up
RoundHalfUp(q) == (q + 2) \div 4

\* round(seconds * 1000) of Python 3: to the nearest integer, a tie to the
\* even one.  q is seconds * 1000 in quarters.
PyRound(q) ==
    LET f == q \div 4
        r == q % 4
    IN  IF r < 2 THEN f
        ELSE IF r > 2 THEN f + 1
        ELSE IF f % 2 = 0 THEN f ELSE f + 1

format_time(secs) ==
    LET millis == PyRound(secs)
        hours == millis \div 3600000
        minutes == (millis % 3600000) \div 60000
        s == (millis % 60000) \div 1000
        ms == millis % 1000
    IN  ZeroPad(Dec(hours), 2) \o <<":">> \o ZeroPad(Dec(minutes), 2) \o <<":">>
        \o ZeroPad(Dec(s), 2) \o <<",">> \o ZeroPad(Dec(ms), 3)

----------------------------------------------------------------------------
(* translate.py: parse_srt *)

\* text.replace("\r", "")
NotCR(c) == c # CR
RemoveCR(s) == SelectSeq(s, NotCR)

\* The positions where a match of \n\s*\n that starts at i can end.
SepEnds(s, i) ==
    {j \in (i + 1)..Len(s) :
        s[j] = NL /\ \A k \in (i + 1)..(j - 1) : IsSpace(s[k])}

\* The positions from `from` on where a match of \n\s*\n can start.
SepStarts(s, from) == {i \in from..Len(s) : s[i] = NL /\ SepEnds(s, i) # {}}

SetMax(S) == CHOOSE x \in S : \A y \in S : y <= x
SetMin(S) == CHOOSE x \in S : \A y \in S : x <= y

\* re.split(r"\n\s*\n", s) from position `from`: the leftmost match, \s* greedy
\* (the longest match from that start), then on from its end.  acc is the
\* blocks already split off.
RECURSIVE ReSplit(_, _, _)
ReSplit(s, from, acc) ==
    LET starts == SepStarts(s, from)
    IN  IF starts = {} THEN Append(acc, SubSeq(s, from, Len(s)))
        ELSE LET i == SetMin(starts)
                 j == SetMax(SepEnds(s, i))
             IN  ReSplit(s, j + 1, Append(acc, SubSeq(s, from, i - 1)))

SplitBlocks(text) == LET s == Strip(RemoveCR(text)) IN ReSplit(s, 1, <<>>)

\* block.split("\n"): line k lies between the (k-1)-th and the k-th "\n"
SplitLines(block) ==
    LET nls == {i \in 1..Len(block) : block[i] = NL}
        nth(k) == IF k = 0 THEN 0
                  ELSE IF k > Cardinality(nls) THEN Len(block) + 1
                  ELSE CHOOSE p \in nls : Cardinality({q \in nls : q < p}) = k - 1
    IN  [k \in 1..(Cardinality(nls) + 1) |-> SubSeq(block, nth(k - 1) + 1, nth(k) - 1)]

\* a variant of TooShort that skips no block
TooShortNever(lines) == FALSE

\* if len(lines) < 2: continue
TooShort(lines) == Len(lines) < 2

\* a variant of IndexSkip that never takes the first line for an index
IndexSkipNever(lines) == 0

\* idx = 0; if lines[0].strip().isdigit(): idx = 1   (idx counted from 0)
IndexSkip(lines) == IF IsDigitStr(Strip(lines[1])) THEN 1 ELSE 0

\* lines[idx] raises IndexError when idx is past the last line
RaisesIndexError(lines) == ~TooShort(lines) /\ IndexSkip(lines) + 1 > Len(lines)

\* (time_line, body) of one block
BlockEntry(lines) ==
    LET idx == IndexSkip(lines)
    IN  [time_line |-> lines[idx + 1], body |-> SubSeq(lines, idx + 2, Len(lines))]

RECURSIVE BlockEntries(_)
BlockEntries(blocks) ==
    IF blocks = <<>> THEN <<>>
    ELSE LET lines == SplitLines(Head(blocks))
         IN  (IF TooShort(lines) THEN <<>> ELSE <<BlockEntry(lines)>>)
             \o BlockEntries(Tail(blocks))

\* parse_srt(text) raises instead of returning
ParseRaises(text) ==
    LET blocks == SplitBlocks(text)
    IN  \E b \in 1..Len(blocks) : RaisesIndexError(SplitLines(blocks[b]))

\* parse_srt(text): the entries it returns
parse_srt(text) == BlockEntries(SplitBlocks(text))

----------------------------------------------------------------------------
(* The two serializers.  A file is the sequence of the strings given to     *)
(* f.write, in order; its text is their concatenation.                      *)

Arrow == <<SP, "-", "-", ">", SP>>

\* a variant of EnumerateFrom1 that counts from 0
EnumerateFrom0(k) == k - 1

\* enumerate(..., 1): the number given to the entry at position k (from 1)
EnumerateFrom1(k) == k

\* a variant of AsrEntryWrites that ends the text with one "\n" only
AsrEntryWritesNoBlank(k, seg) ==
    << Dec(EnumerateFrom1(k)) \o <<NL>>,
       format_time(seg.start) \o Arrow \o format_time(seg.end) \o <<NL>>,
       Strip(seg.text) \o <<NL>> >>

\* asr.write_srt's three writes for segment seg at position k
AsrEntryWrites(k, seg) ==
    << Dec(EnumerateFrom1(k)) \o <<NL>>,
       format_time(seg.start) \o Arrow \o format_time(seg.end) \o <<NL>>,
       Strip(seg.text) \o <<NL, NL>> >>

\* the writes of segments k.. of segs
RECURSIVE AsrWritesFrom(_, _)
AsrWritesFrom(segs, k) ==
    IF k > Len(segs) THEN <<>>
    ELSE AsrEntryWrites(k, segs[k]) \o AsrWritesFrom(segs, k + 1)

asr_write_srt(segs) == AsrWritesFrom(segs, 1)

\* translate.write_srt's three writes for entry e at position k
TrEntryWrites(k, e) ==
    << Dec(EnumerateFrom1(k)) \o <<NL>>,
       e.time_line \o <<NL>>,
       Strip(JoinLines(e.body)) \o <<NL, NL>> >>

\* the writes of entries k.. of es
RECURSIVE TrWritesFrom(_, _)
TrWritesFrom(es, k) ==
    IF k > Len(es) THEN <<>>
    ELSE TrEntryWrites(k, es[k]) \o TrWritesFrom(es, k + 1)

translate_write_srt(es) == TrWritesFrom(es, 1)

\* a path nothing was written to, and the file open(path, "w") and the writes leave
NoFile == [opened |-> FALSE, writes |-> <<>>]
Written(ws) == [opened |-> TRUE, writes |-> ws]

\* f.read() of a written file
FileText(file) == Flatten(file.writes)

----------------------------------------------------------------------------
(* Inputs of the two scripts *)

MaxSegs == 2        \* the producer yields at most this many segments
MaxBlocks == 2      \* an input file holds at most this many blocks

\* the sequences over S of length lo..hi
SeqsOf(S, lo, hi) == UNION {[1..n -> S] : n \in lo..hi}

\* time offsets in quarter-milliseconds: 0 s, 5 s, 15 s
TimePoints == {0, 20000, 60000}

SegTexts == {<<"a">>, <<SP, "a", "b", SP>>}

Segment == {sg \in [start : TimePoints, end : TimePoints, text : SegTexts] :
                sg.start <= sg.end}

\* what the recognizer can yield: start and end non-decreasing along the sequence
SegmentSeqs ==
    {ss \in SeqsOf(Segment, 0, MaxSegs) :
        \A k \in 1..(Len(ss) - 1) :
            ss[k].start <= ss[k + 1].start /\ ss[k].end <= ss[k + 1].end}

\* args.duration_sec: negative, absent or zero (0.0), 10 s
Totals == {0 - 4000, 0, 40000}

\* time.time() - start_time read at a sample: 0 s, 2 s
ElapsedChoices == {0, 8000}

T1 == format_time(0) \o Arrow \o format_time(4000)
T2 == format_time(4000) \o Arrow \o format_time(10002)

\* blocks of an input subtitle file, as text
InputBlocks ==
    { <<"1", NL>> \o T1 \o <<NL, "a">>,
      T1 \o <<NL, "a", SP, NL, SP, "b">>,
      <<"7", NL>> \o T2 \o <<NL, "b", NL, "c">>,
      <<"7", CR, NL>> \o T2 \o <<CR, NL, "b">>,
      <<"3", NL>> \o T1,
      <<"1", NL>> \o T2 \o <<NL, "a", NL, SP, NL, "b">>,
      <<"x">> }

RECURSIVE JoinBlocks(_)
JoinBlocks(bs) ==
    IF bs = <<>> THEN <<>> ELSE Head(bs) \o <<NL, NL>> \o JoinBlocks(Tail(bs))

InputFiles == {JoinBlocks(bs) : bs \in SeqsOf(InputBlocks, 0, MaxBlocks)}

\* what translation.translate may return for a line: some text, or nothing
TranslatorOutputs(line) == {<<"r">> \o line, <<>>}

----------------------------------------------------------------------------
(* asr.py: main *)

\* a rational n / d, d > 0, is the pair <<n, d>>
RatLess(x, y) == x[1] * y[2] < y[1] * x[2]

\* max(x, y) and min(x, y) of Python: the first argument unless the second
\* is strictly greater (smaller)
PyMax(x, y) == IF RatLess(x, y) THEN y ELSE x
PyMin(x, y) == IF RatLess(y, x) THEN y ELSE x

\* a variant of Ratio without the upper clamp
RatioNoUpperClamp(segend, tot) == PyMax(<<segend, tot>>, <<0, 1>>)

\* ratio = min(max(seg.end / total, 0.0), 1.0)
Ratio(segend, tot) == PyMin(PyMax(<<segend, tot>>, <<0, 1>>), <<1, 1>>)

\* elapsed = max(time.time() - start_time, 0.001)
Elapsed(e) == IF e < 4 THEN 4 ELSE e

\* f"{x:.Nf}": x * scale rounded to the nearest integer, a tie to the even one
Fixed(x, scale) ==
    LET n == scale * x[1]
        f == n \div x[2]
        r == n % x[2]
    IN  IF 2 * r < x[2] THEN f
        ELSE IF 2 * r > x[2] THEN f + 1
        ELSE IF f % 2 = 0 THEN f ELSE f + 1

\* the PROGRESS line of one segment; e is the wall-clock time since start_time
Sample(seg, tot, e) ==
    LET ratio == Ratio(seg.end, tot)
        speed == <<seg.end, Elapsed(e)>>
    IN  [ratio |-> ratio, position |-> seg.end, total |-> tot, speed |-> speed,
         line |-> <<"PROGRESS", Fixed(ratio, 10000), Fixed(<<seg.end, 4000>>, 100),
                    Fixed(<<tot, 4000>>, 100), Fixed(speed, 100)>>]

\* a variant of TelemetryOn with the comparison reversed
TelemetryOnReversed(tot) == tot < 0

\* if total > 0
TelemetryOn(tot) == tot > 0

InitAsr ==
    /\ pc = "asr_loop"
    /\ segments_iter \in SegmentSeqs
    /\ given = [kind |-> "segments", source |-> segments_iter]
    /\ total \in Totals
    /\ segments = <<>>
    /\ stdout = <<>>
    /\ out_file = NoFile /\ re_file = NoFile
    /\ write_calls = <<>>
    /\ srt_text = <<>> /\ entries = <<>> /\ alt_text = <<>> /\ alt_entries = <<>>
    /\ translated_entries = <<>> /\ translated_lines = <<>> /\ calls = <<>>
    /\ seconds = 0 /\ stamp = <<>>

\* a variant of AsrConsume that writes the file as each segment arrives
AsrConsumeStreaming ==
    /\ pc = "asr_loop"
    /\ segments_iter # <<>>
    /\ LET seg == Head(segments_iter)
       IN  /\ segments' = Append(segments, seg)
           /\ segments_iter' = Tail(segments_iter)
           /\ IF TelemetryOn(total)
              THEN \E e \in ElapsedChoices :
                       stdout' = Append(stdout, Sample(seg, total, e))
              ELSE stdout' = stdout
    /\ out_file' = Written(asr_write_srt(segments'))
    /\ write_calls' = Append(write_calls, segments')
    /\ UNCHANGED <<pc, total, parseVars, trVars, codecVars, given>>

\* one turn of "for seg in segments_iter": the producer yields a segment
AsrConsume ==
    /\ pc = "asr_loop"
    /\ segments_iter # <<>>
    /\ LET seg == Head(segments_iter)
       IN  /\ segments' = Append(segments, seg)
           /\ segments_iter' = Tail(segments_iter)
           /\ IF TelemetryOn(total)
              THEN \E e \in ElapsedChoices :
                       stdout' = Append(stdout, Sample(seg, total, e))
              ELSE stdout' = stdout
    /\ UNCHANGED <<pc, total, out_file, write_calls, parseVars, trVars, codecVars, given>>

\* the producer signals exhaustion: the loop ends
AsrExhausted ==
    /\ pc = "asr_loop"
    /\ segments_iter = <<>>
    /\ pc' = "asr_write"
    /\ UNCHANGED <<asrVars, out_file, write_calls, parseVars, trVars, codecVars, given>>

\* the producer raises, or the process is stopped, inside the loop: main has
\* no handler and the script ends there
AsrAbort ==
    /\ pc = "asr_loop"
    /\ pc' = "crashed"
    /\ UNCHANGED <<asrVars, out_file, write_calls, parseVars, trVars, codecVars, given>>

\* write_srt(segments, args.output_srt)
AsrWrite ==
    /\ pc = "asr_write"
    /\ out_file' = Written(asr_write_srt(segments))
    /\ write_calls' = Append(write_calls, segments)
    /\ pc' = "done"
    /\ UNCHANGED <<asrVars, parseVars, trVars, codecVars, given>>

----------------------------------------------------------------------------
(* translate.py: main *)

InitTranslate ==
    /\ pc = "tr_start"
    /\ srt_text \in InputFiles
    /\ given = [kind |-> "file"]
    /\ entries = <<>> /\ alt_text = <<>> /\ alt_entries = <<>>
    /\ translated_entries = <<>> /\ translated_lines = <<>> /\ calls = <<>>
    /\ out_file = NoFile /\ re_file = NoFile
    /\ write_calls = <<>>
    /\ segments_iter = <<>> /\ segments = <<>> /\ total = 0 /\ stdout = <<>>
    /\ seconds = 0 /\ stamp = <<>>

\* translation is None: raise RuntimeError
TrNoModel ==
    /\ pc = "tr_start"
    /\ pc' = "failed"
    /\ UNCHANGED <<asrVars, out_file, write_calls, parseVars, trVars, codecVars, given>>

\* entries = parse_srt(srt_text); translated_entries = []
TrParse ==
    /\ pc = "tr_start"
    /\ IF ParseRaises(srt_text)
       THEN pc' = "failed" /\ entries' = entries
       ELSE pc' = "tr_loop" /\ entries' = parse_srt(srt_text)
    /\ translated_entries' = <<>>
    /\ translated_lines' = <<>>
    /\ UNCHANGED <<asrVars, out_file, write_calls, srt_text, alt_text, alt_entries,
                   re_file, calls, codecVars, given>>

\* the entry and the line the two loops stand at
CurEntry == Len(translated_entries) + 1
CurLine == Len(translated_lines) + 1

\* a variant of TrLine that hands the translator the line as parsed, untrimmed
TrLineRaw ==
    /\ pc = "tr_loop"
    /\ CurEntry <= Len(entries)
    /\ CurLine <= Len(entries[CurEntry].body)
    /\ LET line == entries[CurEntry].body[CurLine]
       IN  IF Strip(line) = <<>>
           THEN /\ translated_lines' = Append(translated_lines, <<>>)
                /\ calls' = calls
           ELSE /\ \E out \in TranslatorOutputs(line) :
                       translated_lines' = Append(translated_lines, out)
                /\ calls' = Append(calls, line)
    /\ UNCHANGED <<pc, asrVars, out_file, write_calls, parseVars, translated_entries,
                   codecVars, given>>

\* one turn of "for line in body_lines"
TrLine ==
    /\ pc = "tr_loop"
    /\ CurEntry <= Len(entries)
    /\ CurLine <= Len(entries[CurEntry].body)
    /\ LET line == Strip(entries[CurEntry].body[CurLine])
       IN  IF line = <<>>
           THEN /\ translated_lines' = Append(translated_lines, <<>>)
                /\ calls' = calls
           ELSE /\ \E out \in TranslatorOutputs(line) :
                       translated_lines' = Append(translated_lines, out)
                /\ calls' = Append(calls, line)
    /\ UNCHANGED <<pc, asrVars, out_file, write_calls, parseVars, translated_entries,
                   codecVars, given>>

NotEmpty(line) == line # <<>>

\* a variant of TrEntryDone that drops the lines translated to nothing
TrEntryDoneDropEmpty ==
    /\ pc = "tr_loop"
    /\ CurEntry <= Len(entries)
    /\ CurLine > Len(entries[CurEntry].body)
    /\ translated_entries' =
           Append(translated_entries,
                  [time_line |-> entries[CurEntry].time_line,
                   body |-> SelectSeq(translated_lines, NotEmpty)])
    /\ translated_lines' = <<>>
    /\ UNCHANGED <<pc, asrVars, out_file, write_calls, parseVars, calls, codecVars, given>>

\* translated_entries.append((time_line, translated_lines))
TrEntryDone ==
    /\ pc = "tr_loop"
    /\ CurEntry <= Len(entries)
    /\ CurLine > Len(entries[CurEntry].body)
    /\ translated_entries' =
           Append(translated_entries,
                  [time_line |-> entries[CurEntry].time_line, body |-> translated_lines])
    /\ translated_lines' = <<>>
    /\ UNCHANGED <<pc, asrVars, out_file, write_calls, parseVars, calls, codecVars, given>>

\* write_srt(translated_entries, args.output_srt)
TrWrite ==
    /\ pc = "tr_loop"
    /\ CurEntry > Len(entries)
    /\ out_file' = Written(translate_write_srt(translated_entries))
    /\ write_calls' = Append(write_calls, translated_entries)
    /\ pc' = "done"
    /\ UNCHANGED <<asrVars, parseVars, trVars, codecVars, given>>

----------------------------------------------------------------------------
(* The two scripts: one run of asr.py or of translate.py *)

Init == InitAsr \/ InitTranslate

Next ==
    \/ AsrConsume
    \/ AsrExhausted
    \/ AsrAbort
    \/ AsrWrite
    \/ TrNoModel
    \/ TrParse
    \/ TrLine
    \/ TrEntryDone
    \/ TrWrite

Spec == Init /\ [][Next]_vars

----------------------------------------------------------------------------
(* format_time alone *)

MaxTicks == 40      \* every offset of 0..MaxTicks quarter-milliseconds is encoded

\* offsets around which the fields carry: 1 s, 1 min, 1 h, 3661.2005 s, 100 h
CodecLandmarks == {4000, 240000, 14400000, 14644802, 1440000000}

CodecInputs ==
    (0..MaxTicks) \cup {m + d : m \in CodecLandmarks, d \in (0 - 4)..4}

InitCodec ==
    /\ pc = "codec"
    /\ seconds \in CodecInputs
    /\ stamp = <<>>
    /\ segments_iter = <<>> /\ segments = <<>> /\ total = 0 /\ stdout = <<>>
    /\ out_file = NoFile /\ re_file = NoFile /\ write_calls = <<>>
    /\ srt_text = <<>> /\ entries = <<>> /\ alt_text = <<>> /\ alt_entries = <<>>
    /\ translated_entries = <<>> /\ translated_lines = <<>> /\ calls = <<>>
    /\ given = [kind |-> "none"]

Encode ==
    /\ pc = "codec"
    /\ stamp' = format_time(seconds)
    /\ pc' = "encoded"
    /\ UNCHANGED <<asrVars, out_file, write_calls, parseVars, trVars, seconds, given>>

SpecCodec == InitCodec /\ [][Encode]_vars

----------------------------------------------------------------------------
(* parse_srt alone *)

MaxRawLen == 4          \* arbitrary input texts have at most this many characters
MaxParseBlocks == 2     \* built input files hold at most this many blocks
MaxBlockLines == 3      \* and each block at most this many lines
MaxBodyLines == 2       \* text lines under one timestamp line

RawChars == {"a", "1", SP, NL, CR}

\* lines of a built file: a numeric line and a line that is not
ParseLines == {<<"7">>, <<"T", SP, "b">>}

\* how a built file separates its blocks and how it ends: "\n" line ends
\* and no final newline, or "\r\n" line ends, a blank line of one space and
\* a final newline
FileShapes == {[sep |-> <<NL, NL>>, tail |-> <<>>],
               [sep |-> <<CR, NL, SP, CR, NL>>, tail |-> <<CR, NL>>]}

\* the text of a file of blocks (each a sequence of lines)
RECURSIVE BuildFile(_, _)
BuildFile(blocks, sep) ==
    IF blocks = <<>> THEN <<>>
    ELSE IF Len(blocks) = 1 THEN JoinLines(blocks[1])
    ELSE JoinLines(blocks[1]) \o sep \o BuildFile(Tail(blocks), sep)

IndexLines == {<<"1">>, <<"4", "2">>}
TolTimeLines == {T1, <<SP>> \o T1, T1 \o <<CR>>, <<"9">>}
TolTextLines == {<<"a">>, <<"a", SP>>, <<SP, "a">>, <<"1">>, <<>>, <<SP>>, <<"a", CR>>}

ParseRest ==
    /\ pc = "parse"
    /\ entries = <<>> /\ alt_entries = <<>>
    /\ segments_iter = <<>> /\ segments = <<>> /\ total = 0 /\ stdout = <<>>
    /\ out_file = NoFile /\ re_file = NoFile /\ write_calls = <<>>
    /\ translated_entries = <<>> /\ translated_lines = <<>> /\ calls = <<>>
    /\ seconds = 0 /\ stamp = <<>>

\* any text at all
InitRaw ==
    /\ srt_text \in SeqsOf(RawChars, 0, MaxRawLen)
    /\ alt_text = srt_text
    /\ given = [kind |-> "raw"]
    /\ ParseRest

\* a file of blocks; alt_text is the same file with one more, single-line, block
InitBlocks ==
    /\ \E bs \in SeqsOf(SeqsOf(ParseLines, 1, MaxBlockLines), 0, MaxParseBlocks),
          shape \in FileShapes :
          /\ given = [kind |-> "blocks", blocks |-> bs]
          /\ srt_text = BuildFile(bs, shape.sep) \o shape.tail
          /\ alt_text = BuildFile(Append(bs, <<<<"x">>>>), shape.sep) \o shape.tail
    /\ ParseRest

\* one block with an index line (srt_text) and the same block without (alt_text)
InitPair ==
    /\ \E d \in IndexLines, t \in TolTimeLines,
          ls \in SeqsOf(TolTextLines, 1, MaxBodyLines) :
          /\ given = [kind |-> "pair", index |-> d, time_line |-> t, body |-> ls]
          /\ srt_text = JoinLines(<<d, t>> \o ls)
          /\ alt_text = JoinLines(<<t>> \o ls)
    /\ ParseRest

InitParse == InitRaw \/ InitBlocks \/ InitPair

\* entries = parse_srt(srt_text)
Parse ==
    /\ pc = "parse"
    /\ IF ParseRaises(srt_text)
       THEN pc' = "failed" /\ entries' = entries
       ELSE pc' = "parsed" /\ entries' = parse_srt(srt_text)
    /\ UNCHANGED <<asrVars, out_file, write_calls, srt_text, alt_text, alt_entries,
                   re_file, trVars, codecVars, given>>

\* alt_entries = parse_srt(alt_text)
ParseAlt ==
    /\ pc = "parsed"
    /\ IF ParseRaises(alt_text)
       THEN pc' = "failed" /\ alt_entries' = alt_entries
       ELSE pc' = "parsed_both" /\ alt_entries' = parse_srt(alt_text)
    /\ UNCHANGED <<asrVars, out_file, write_calls, srt_text, alt_text, entries,
                   re_file, trVars, codecVars, given>>

SpecParse == InitParse /\ [][Parse \/ ParseAlt]_vars

----------------------------------------------------------------------------
(* asr.write_srt, then parse_srt, then translate.write_srt *)

MaxTextLen == 4     \* the free segment text has at most this many characters

\* segment k of a transcript: 1500.5 ms long, the text given
SegmentAt(k, text) == [start |-> 6002 * (k - 1), end |-> 6002 * k, text |-> text]

\* n segments with text "b", but for segment p, whose text is any text
InitRound ==
    /\ pc = "rt_write"
    /\ \E n \in 1..MaxSegs, p \in 1..MaxSegs, text \in SeqsOf(RawChars, 0, MaxTextLen) :
          /\ p <= n
          /\ segments = [k \in 1..n |-> SegmentAt(k, IF k = p THEN text ELSE <<"b">>)]
    /\ given = [kind |-> "segments", source |-> segments]
    /\ segments_iter = <<>> /\ total = 0 /\ stdout = <<>>
    /\ out_file = NoFile /\ re_file = NoFile /\ write_calls = <<>>
    /\ srt_text = <<>> /\ entries = <<>> /\ alt_text = <<>> /\ alt_entries = <<>>
    /\ translated_entries = <<>> /\ translated_lines = <<>> /\ calls = <<>>
    /\ seconds = 0 /\ stamp = <<>>

\* asr.write_srt(segments, path)
RoundWrite ==
    /\ pc = "rt_write"
    /\ out_file' = Written(asr_write_srt(segments))
    /\ write_calls' = Append(write_calls, segments)
    /\ pc' = "rt_parse"
    /\ UNCHANGED <<asrVars, parseVars, trVars, codecVars, given>>

\* srt_text = f.read(); entries = parse_srt(srt_text)
RoundParse ==
    /\ pc = "rt_parse"
    /\ srt_text' = FileText(out_file)
    /\ IF ParseRaises(srt_text')
       THEN pc' = "failed" /\ entries' = entries
       ELSE pc' = "rt_rewrite" /\ entries' = parse_srt(srt_text')
    /\ UNCHANGED <<asrVars, out_file, write_calls, alt_text, alt_entries, re_file,
                   trVars, codecVars, given>>

\* translate.write_srt(entries, path2)
RoundRewrite ==
    /\ pc = "rt_rewrite"
    /\ re_file' = Written(translate_write_srt(entries))
    /\ write_calls' = Append(write_calls, entries)
    /\ pc' = "rt_done"
    /\ UNCHANGED <<asrVars, out_file, srt_text, entries, alt_text, alt_entries,
                   trVars, codecVars, given>>

SpecRound == InitRound /\ [][RoundWrite \/ RoundParse \/ RoundRewrite]_vars

----------------------------------------------------------------------------
(* Properties of format_time (SpecCodec) *)

Str000 == <<"0", "0", ":", "0", "0", ":", "0", "0", ",", "0", "0", "0">>
Str200 == <<"0", "1", ":", "0", "1", ":", "0", "1", ",", "2", "0", "0">>
Str201 == <<"0", "1", ":", "0", "1", ":", "0", "1", ",", "2", "0", "1">>

DigitVal(c) == CHOOSE d \in 0..9 : DigitChars[d + 1] = c

\* the number a string of digits writes
RECURSIVE ToNum(_)
ToNum(ds) ==
    IF ds = <<>> THEN 0
    ELSE 10 * ToNum(SubSeq(ds, 1, Len(ds) - 1)) + DigitVal(ds[Len(ds)])

\* q quarter-milliseconds to the nearest millisecond, a tie up
NearestHalfUp(q) == CHOOSE m \in {q \div 4, (q \div 4) + 1} : 4 * m - q \in (0 - 1)..2

\* q quarter-milliseconds to the nearest millisecond, a tie to the even one
NearestHalfEven(q) ==
    CHOOSE m \in {q \div 4, (q \div 4) + 1} :
        /\ 4 * m - q \in (0 - 2)..2
        /\ (4 * m - q \in {0 - 2, 2}) => m % 2 = 0

StampHours(st) == SubSeq(st, 1, Len(st) - 10)
StampMinutes(st) == SubSeq(st, Len(st) - 8, Len(st) - 7)
StampSeconds(st) == SubSeq(st, Len(st) - 5, Len(st) - 4)
StampMillis(st) == SubSeq(st, Len(st) - 2, Len(st))

\* st is HH:MM:SS,mmm for m milliseconds: hours of at least two digits and not
\* wrapped, minutes and seconds in 00..59, milliseconds in 000..999
EncodesMillis(st, m) ==
    /\ Len(st) >= 12
    /\ st[Len(st) - 9] = ":" /\ st[Len(st) - 6] = ":" /\ st[Len(st) - 3] = ","
    /\ IsDigitStr(StampHours(st)) /\ IsDigitStr(StampMinutes(st))
    /\ IsDigitStr(StampSeconds(st)) /\ IsDigitStr(StampMillis(st))
    /\ Len(StampHours(st)) = 2 \/ StampHours(st)[1] # "0"
    /\ ToNum(StampHours(st)) = m \div 3600000
    /\ ToNum(StampMinutes(st)) \in 0..59
    /\ ToNum(StampSeconds(st)) \in 0..59
    /\ ToNum(StampMillis(st)) \in 0..999
    /\ ToNum(StampHours(st)) * 3600000 + ToNum(StampMinutes(st)) * 60000
           + ToNum(StampSeconds(st)) * 1000 + ToNum(StampMillis(st)) = m

\* C3 as stated: format_time(x) is HH:MM:SS,mmm of x rounded to the nearest
\* millisecond with ties rounded up; encode(0) = "00:00:00,000",
\* encode(3661.2005) = "01:01:01,201", and 360000 s has the hours field "100".
C3_HalfUpEncoding ==
    pc = "encoded" =>
        /\ EncodesMillis(stamp, NearestHalfUp(seconds))
        /\ seconds = 0 => stamp = Str000
        /\ seconds = 14644802 => stamp = Str201
        /\ seconds = 1440000000 => StampHours(stamp) = <<"1", "0", "0">>

\* C3 amended: format_time(x) is HH:MM:SS,mmm of x * 1000 rounded to the nearest
\* millisecond with ties rounded to the even millisecond; encode(0) =
\* "00:00:00,000", encode(3661.2005) = "01:01:01,200", and 360000 s has the
\* hours field "100".
C3_HalfEvenEncoding ==
    pc = "encoded" =>
        /\ EncodesMillis(stamp, NearestHalfEven(seconds))
        /\ seconds = 0 => stamp = Str000
        /\ seconds = 14644802 => stamp = Str200
        /\ seconds = 1440000000 => StampHours(stamp) = <<"1", "0", "0">>

\* 3661.2005 s, a tie between 3661200 ms and 3661201 ms, has been encoded
C3_TieEncoded == pc = "encoded" /\ seconds = 14644802 /\ stamp = Str200

----------------------------------------------------------------------------
(* Properties of the two scripts (Spec) *)

AsrRun == given.kind = "segments"
TrRun == given.kind = "file"

\* the index line of entry k, for k < 10
IndexLine(k) == <<DigitChars[k + 1], NL>>

\* C2: a written file holds three writes per entry handed to write_srt, the
\* first of each being the index line of its position, 1, 2, ..., N in order
\* (none when N = 0), whatever index lines the parsed input carried.
C2_IndexRegeneration ==
    out_file.opened =>
        LET n == Len(write_calls[Len(write_calls)])
        IN  /\ Len(out_file.writes) = 3 * n
            /\ \A k \in 1..n : out_file.writes[3 * k - 2] = IndexLine(k)

\* translate.py has rewritten a file whose two blocks both carry the index 7
C2_DuplicateIndexRewritten ==
    /\ pc = "done" /\ TrRun
    /\ Len(entries) = 2
    /\ SubSeq(srt_text, 1, 2) = <<"7", NL>>
    /\ \E i \in 3..(Len(srt_text) - 2) : SubSeq(srt_text, i, i + 2) = <<NL, "7", NL>>
    /\ out_file.writes[1] = <<"1", NL>>
    /\ out_file.writes[4] = <<"2", NL>>

\* the body lines of entries i.. of es, in order
RECURSIVE LinesFrom(_, _)
LinesFrom(es, i) == IF i > Len(es) THEN <<>> ELSE es[i].body \o LinesFrom(es, i + 1)

NonBlank(line) == \E i \in 1..Len(line) : ~IsSpace(line[i])

\* the parsed text lines the loops have passed, and what each became
LinesPassed ==
    LinesFrom(SubSeq(entries, 1, Len(translated_entries)), 1)
    \o (IF CurEntry <= Len(entries)
        THEN SubSeq(entries[CurEntry].body, 1, Len(translated_lines))
        ELSE <<>>)
LinesMade == LinesFrom(translated_entries, 1) \o translated_lines

\* C6: the translator has been called exactly once for each parsed text line
\* passed so far that is non-empty after trimming, with the trimmed line, in
\* file order, and never for a line empty after trimming, which stays an
\* empty line at its position.
C6_TranslatorCalls ==
    (TrRun /\ pc \in {"tr_loop", "done"}) =>
        LET passed == SelectSeq(LinesPassed, NonBlank)
        IN  /\ Len(calls) = Len(passed)
            /\ \A k \in 1..Len(passed) : calls[k] = Strip(passed[k])
            /\ \A k \in 1..Len(calls) : calls[k] # <<>>
            /\ Len(LinesMade) = Len(LinesPassed)
            /\ \A k \in 1..Len(LinesPassed) :
                   ~NonBlank(LinesPassed[k]) => LinesMade[k] = <<>>
            /\ pc = "done" => Len(LinesPassed) = Len(LinesFrom(entries, 1))

\* a file of two entries is done: three calls, the second line of the first
\* entry having been trimmed before its call
C6_ThreeCallsMade ==
    /\ pc = "done" /\ TrRun
    /\ Len(entries) = 2
    /\ Len(calls) = 3
    /\ Len(entries[1].body) = 2
    /\ entries[1].body[2] = <<SP, "b">>
    /\ calls[2] = <<"b">>

\* C7: every progress sample carries ratio = min(max(end / total, 0), 1) of
\* its segment, so 0 <= ratio <= 1 (total = 10, end = 15 prints 1.0000), and
\* the unclamped end as its position.
C7_ProgressClamping ==
    AsrRun =>
        \A i \in 1..Len(stdout) :
            LET smp == stdout[i]
                num == smp.ratio[1]
                den == smp.ratio[2]
            IN  /\ total > 0 /\ den > 0
                /\ 0 <= num /\ num <= den
                /\ segments[i].end >= total => num = den
                /\ segments[i].end <= 0 => num = 0
                /\ (0 < segments[i].end /\ segments[i].end < total)
                       => num * total = segments[i].end * den
                /\ smp.position = segments[i].end
                /\ smp.line[2] \in 0..10000
                /\ (total = 40000 /\ segments[i].end = 60000) => smp.line[2] = 10000

\* a segment ending at 15 s of an expected 10 s has been reported
C7_OvershootReported ==
    /\ AsrRun /\ total = 40000
    /\ \E i \in 1..Len(stdout) :
           /\ stdout[i].position = 60000
           /\ stdout[i].ratio = <<1, 1>>
           /\ stdout[i].line[2] = 10000

\* C8: the entries handed to the serializer are as many as the parsed ones;
\* entry i carries parsed entry i's timestamp line unchanged and as many text
\* lines, line j being what the translator made of parsed line j; the file
\* holds the timestamp line verbatim.
C8_TimingPreserved ==
    (TrRun /\ pc \in {"tr_loop", "done"}) =>
        /\ Len(translated_entries) <= Len(entries)
        /\ \A i \in 1..Len(translated_entries) :
               /\ translated_entries[i].time_line = entries[i].time_line
               /\ Len(translated_entries[i].body) = Len(entries[i].body)
               /\ \A j \in 1..Len(entries[i].body) :
                      translated_entries[i].body[j]
                          \in TranslatorOutputs(Strip(entries[i].body[j])) \cup {<<>>}
        /\ pc = "done" =>
               /\ Len(translated_entries) = Len(entries)
               /\ write_calls = <<translated_entries>>
               /\ \A i \in 1..Len(entries) :
                      out_file.writes[3 * i - 1] = entries[i].time_line \o <<NL>>

\* two entries are done, one of two lines whose first the translator emptied
C8_TwoEntriesRewritten ==
    /\ pc = "done" /\ TrRun
    /\ Len(entries) = 2
    /\ Len(entries[1].body) = 2
    /\ translated_entries[1].body[1] = <<>>
    /\ translated_entries[1].body[2] # <<>>
    /\ entries[1].time_line # entries[2].time_line

\* C9: write_srt is called once, after the producer is exhausted, with every
\* segment in arrival order; before that (the loop running, abandoned or
\* failed) the output file is neither opened nor written.
C9_OneShotWrite ==
    AsrRun =>
        /\ pc \in {"asr_loop", "crashed", "asr_write"} =>
               out_file = NoFile /\ write_calls = <<>>
        /\ pc = "asr_write" => segments_iter = <<>>
        /\ pc = "done" =>
               /\ segments_iter = <<>>
               /\ write_calls = <<given.source>>
               /\ out_file = Written(asr_write_srt(given.source))
        /\ out_file.opened => pc = "done"
        /\ Len(write_calls) <= 1

\* two segments were collected and then written once
C9_WrittenAfterTwo ==
    /\ AsrRun /\ pc = "done"
    /\ Len(given.source) = 2
    /\ Len(write_calls) = 1
    /\ Len(out_file.writes) = 6

\* C10: with total > 0 there is one sample per collected segment, in order;
\* with total <= 0 there is none; either way the collected segments are the
\* produced ones and the file is their serialization.
C10_TelemetryRule ==
    AsrRun =>
        /\ total > 0 =>
               /\ Len(stdout) = Len(segments)
               /\ \A i \in 1..Len(stdout) :
                      /\ stdout[i].position = segments[i].end
                      /\ stdout[i].total = total
        /\ total <= 0 => stdout = <<>>
        /\ segments \o segments_iter = given.source
        /\ pc = "done" => out_file = Written(asr_write_srt(given.source))

\* a run with a known duration has reported both of its segments
C10_TwoSamples ==
    /\ AsrRun /\ pc = "done"
    /\ total > 0
    /\ Len(stdout) = 2
    /\ stdout[1].position <= stdout[2].position

----------------------------------------------------------------------------
(* Properties of parse_srt (SpecParse) *)

Parsed == pc \in {"parsed", "parsed_both"}

HasTwoLines(block) == Len(block) >= 2

\* what a file built of blocks holds: nothing for a block of one line; else
\* the line after a numeric first line, or the first line, and the lines after it
ExpectedEntries(blocks) ==
    LET kept == SelectSeq(blocks, HasTwoLines)
    IN  [k \in 1..Len(kept) |->
            IF kept[k][1] = <<"7">>
            THEN [time_line |-> kept[k][2], body |-> SubSeq(kept[k], 3, Len(kept[k]))]
            ELSE [time_line |-> kept[k][1], body |-> SubSeq(kept[k], 2, Len(kept[k]))]]

\* C5: parse_srt fails on no input; a block of fewer than two lines gives no
\* entry and the other blocks give theirs, unchanged and in file order, also
\* when a single-line block ends the file; empty input gives no entry.
C5_MalformedBlockTolerance ==
    /\ pc # "failed"
    /\ (Parsed /\ srt_text = <<>>) => entries = <<>>
    /\ (Parsed /\ given.kind = "blocks") => entries = ExpectedEntries(given.blocks)
    /\ (pc = "parsed_both" /\ given.kind = "blocks") => alt_entries = entries

\* a three-line block, a single-line block and a final single-line block
\* have been parsed to the one entry of the first
C5_TrailingBlockDropped ==
    /\ pc = "parsed_both" /\ given.kind = "blocks"
    /\ Len(given.blocks) = 2
    /\ Len(given.blocks[1]) = 3 /\ Len(given.blocks[2]) = 1
    /\ Len(entries) = 1 /\ Len(entries[1].body) = 1
    /\ alt_entries = entries

PairEntry == <<[time_line |-> given.time_line, body |-> given.body]>>

HasCR(line) == \E i \in 1..Len(line) : line[i] = CR

\* a timestamp line that is not blank, not numeric and not indented, over
\* text lines that are not blank, no line holding a carriage return
PlainPair ==
    /\ NonBlank(given.time_line)
    /\ ~IsSpace(given.time_line[1])
    /\ ~IsDigitStr(Strip(given.time_line))
    /\ ~HasCR(given.time_line)
    /\ \A k \in 1..Len(given.body) : NonBlank(given.body[k]) /\ ~HasCR(given.body[k])

\* and, besides, nothing after the last character of the last line
CleanPair ==
    /\ PlainPair
    /\ LET last == given.body[Len(given.body)] IN ~IsSpace(last[Len(last)])

\* C4 as stated: for any timestamp line T and any one or more text lines L,
\* "<digits>\nT\nL" and "T\nL" both parse to the single entry (T, L).  A
\* timestamp line is read as a line that is not blank, not numeric and not
\* indented, a text line as a line that is not blank, and a line as holding
\* no carriage return.
C4_AnyLines ==
    (pc = "parsed_both" /\ given.kind = "pair" /\ PlainPair)
        => entries = PairEntry /\ alt_entries = PairEntry

\* C4 amended: the same, for a timestamp line T that is not blank, not purely
\* numeric, not indented and without carriage return, and text lines L that
\* are not blank and without carriage return, the last without trailing
\* whitespace.
C4_CleanLines ==
    (pc = "parsed_both" /\ given.kind = "pair" /\ CleanPair)
        => entries = PairEntry /\ alt_entries = PairEntry

\* a block of a real timestamp line and two text lines, parsed with and
\* without its index line
C4_BothShapesParsed ==
    /\ pc = "parsed_both" /\ given.kind = "pair"
    /\ given.time_line = T1
    /\ Len(given.body) = 2
    /\ CleanPair
    /\ entries = PairEntry /\ alt_entries = PairEntry

----------------------------------------------------------------------------
(* Properties of the round trip (SpecRound) *)

\* the round trip gives one entry per segment, in order, the timestamp lines
\* of the two files equal and the text equal up to outer whitespace
RoundTripExact ==
    /\ Len(entries) = Len(segments)
    /\ Len(re_file.writes) = 3 * Len(segments)
    /\ \A k \in 1..Len(segments) :
           /\ 3 * k <= Len(re_file.writes)
           /\ re_file.writes[3 * k - 1] = out_file.writes[3 * k - 1]
           /\ re_file.writes[3 * k] = Strip(segments[k].text) \o <<NL, NL>>
           /\ k <= Len(entries)
           /\ Strip(JoinLines(entries[k].body)) = Strip(segments[k].text)

\* trimmed, the text holds no carriage return and no blank line
CleanText(text) ==
    LET t == Strip(text)
    IN  /\ ~HasCR(t)
        /\ ~\E i, j \in 1..Len(t) :
               /\ i < j /\ t[i] = NL /\ t[j] = NL
               /\ \A k \in (i + 1)..(j - 1) : IsSpace(t[k])

\* C1 as stated: for segments of any text, the file asr.write_srt writes,
\* parsed and re-serialized, has one entry per segment in order, the same
\* timestamp lines and the same text up to outer whitespace.  It is stated
\* here of the texts without carriage return.
C1_AnyText ==
    /\ pc # "failed"
    /\ (pc = "rt_done" /\ \A k \in 1..Len(segments) : ~HasCR(segments[k].text))
           => RoundTripExact

\* C1 amended: the same, for segments whose trimmed text holds no carriage
\* return and no blank (empty or whitespace-only) line.
C1_CleanText ==
    /\ pc # "failed"
    /\ (pc = "rt_done" /\ \A k \in 1..Len(segments) : CleanText(segments[k].text))
           => RoundTripExact

\* two segments, the first of two text lines, have gone round
C1_TwoLinesRoundTripped ==
    /\ pc = "rt_done"
    /\ Len(segments) = 2
    /\ \A k \in 1..Len(segments) : CleanText(segments[k].text)
    /\ Len(entries) = 2
    /\ Len(entries[1].body) = 2
    /\ RoundTripExact

====
